---- MODULE Spec2Model ----
(***************************************************************************)
(* Statutory report generation (server/services/statutory-reports.js):     *)
(* getPayrollRunForMonth, generatePFECR, generateESIReturn and             *)
(* generateTDSSummary, run against a relational store that they only read. *)
(*                                                                         *)
(* Text values are sequences of one-character strings, so that joining,    *)
(* trimming, upper-casing and String(n) are computed, not assumed.         *)
(* SQL NULL is the value NULL; an absent metadata key is a key missing     *)
(* from the DOMAIN of the metadata function.                               *)
(*                                                                         *)
(* The tax declaration page (TaxDeclaration) is a second program over its  *)
(* own variables: SpecPage and SpecPageFault run it while the report       *)
(* builders stay idle, and the report specifications leave it unmounted.   *)
(***************************************************************************)
EXTENDS Integers, Sequences, FiniteSets, TLC

VARIABLES db, pc, fn, args, payrollRun, org, employeesResult, result,
          raised, delivered, queries, logged

\* The tax declaration page (TaxDeclaration): its useState cells, the
\* loadData and handleSave calls that are awaiting an answer, and the
\* declarations the api holds for the employee.
VARIABLES financialYear, definitions, declaration, items, formItems, regime,
          loading, saving, showOnlyMarked, mounted, loads, saveCall, server, selections, saves

reportVars == <<db, pc, fn, args, payrollRun, org, employeesResult, result,
                raised, delivered, queries, logged>>

pageVars == <<financialYear, definitions, declaration, items, formItems,
              regime, loading, saving, showOnlyMarked, mounted, loads,
              saveCall, server, selections, saves>>

vars == <<db, pc, fn, args, payrollRun, org, employeesResult, result,
          raised, delivered, queries, logged, financialYear, definitions,
          declaration, items, formItems, regime, loading, saving,
          showOnlyMarked, mounted, loads, saveCall, server,
          selections, saves>>

(***************************************************************************)
(* Bounds of the model.                                                    *)
(***************************************************************************)
\* number of draft runs a tenant may have piled up in later periods
MaxBacklog == 10

\* length of the identifiers drawn over the delimiter characters
MaxTextLen == 3

\* number of times the user changes the financial year on the page
MaxSelections == 1

\* number of times the user presses Save Draft or Submit on the page
MaxSaves == 1

(***************************************************************************)
(* Values.                                                                 *)
(***************************************************************************)
NULL == <<"<null>">>

Digit == <<"0", "1", "2", "3", "4", "5", "6", "7", "8", "9">>

\* code points of the characters the model uses, in ascending order
Alphabet == <<"\n", " ", "\"", ",", "/", "0", "1", "2", "3", "4", "5", "6",
              "7", "8", "9", "A", "E", "H", "J", "L", "M", "N", "O", "P",
              "R", "a", "e", "h", "j", "l", "n", "o", "|">>

CharRank(c) == CHOOSE i \in 1..Len(Alphabet) : Alphabet[i] = c

\* String(n) for an integer n
RECURSIVE NatString(_)
NatString(n) ==
    IF n < 10 THEN <<Digit[n + 1]>>
    ELSE NatString(n \div 10) \o <<Digit[(n % 10) + 1]>>

String(n) == IF n < 0 THEN <<"-">> \o NatString(-n) ELSE NatString(n)

\* String.prototype.padStart(width, fill)
RECURSIVE padStart(_, _, _)
padStart(s, width, fill) ==
    IF Len(s) >= width THEN s ELSE padStart(<<fill>> \o s, width, fill)

\* Array.prototype.join(sep) over an array of strings
RECURSIVE join(_, _)
join(parts, sep) ==
    IF Len(parts) = 0 THEN <<>>
    ELSE IF Len(parts) = 1 THEN parts[1]
    ELSE parts[1] \o sep \o join(Tail(parts), sep)

IsWhite(c) == c \in {" ", "\n"}

\* String.prototype.trim()
RECURSIVE trimStart(_)
trimStart(s) ==
    IF Len(s) > 0 /\ IsWhite(s[1]) THEN trimStart(Tail(s)) ELSE s

RECURSIVE trimEnd(_)
trimEnd(s) ==
    IF Len(s) > 0 /\ IsWhite(s[Len(s)])
    THEN trimEnd(SubSeq(s, 1, Len(s) - 1)) ELSE s

trim(s) == trimEnd(trimStart(s))

UpperOf(c) ==
    CASE c = "a" -> "A" [] c = "e" -> "E" [] c = "h" -> "H"
      [] c = "j" -> "J" [] c = "l" -> "L" [] c = "n" -> "N"
      [] c = "o" -> "O" [] OTHER -> c

\* String.prototype.toUpperCase()
toUpperCase(s) == [i \in 1..Len(s) |-> UpperOf(s[i])]

\* JavaScript truthiness of a nullable string, and  value || ''
Truthy(s) == s # NULL /\ s # <<>>

OrEmpty(s) == IF Truthy(s) THEN s ELSE <<>>

\* lexicographic  a < b  on text, by code point
RECURSIVE TextLess(_, _)
TextLess(a, b) ==
    IF Len(b) = 0 THEN FALSE
    ELSE IF Len(a) = 0 THEN TRUE
    ELSE IF a[1] = b[1] THEN TextLess(Tail(a), Tail(b))
    ELSE CharRank(a[1]) < CharRank(b[1])

\* Math.round(num / den) for den > 0: the nearest integer, halves upwards
MathRound(num, den) ==
    LET q == num \div den
        r == num % den
    IN  IF 2 * r >= den THEN q + 1 ELSE q

\* Math.round(x * num / den), split so that no product leaves 32 bits; the
\* exact quotient stands for the double product, which agrees with it for
\* every amount of PayFigures and their sums (none is a tie x.5)
RoundScaled(x, num, den) ==
    (x \div den) * num + MathRound((x % den) * num, den)

\* Math.round(x * 0.8333) and Math.round(x * 0.0005)
RoundEPS(x) == RoundScaled(x, 8333, 10000)

RoundEDLI(x) == RoundScaled(x, 5, 10000)

\* Math.round(cents / 100): minor units to whole currency units
ToRupees(cents) == MathRound(cents, 100)

(***************************************************************************)
(* The store the service reads.                                            *)
(***************************************************************************)
Tenants == {"t1", "t2"}

PayDate(y, m, d) == [year |-> y, month |-> m, day |-> d]

Run(id, t, date, st) ==
    [id |-> id, tenant_id |-> t, pay_date |-> date, status |-> st]

\* the period of the i-th piled-up run: March 2024, April 2024, ...
BacklogDate(i) ==
    PayDate(2024 + ((i + 1) \div 12), ((i + 1) % 12) + 1, 28)

BacklogRuns(k) == {Run(100 + i, "t1", BacklogDate(i), "draft") : i \in 1..k}

Backlogs == {0, MaxBacklog - 1, MaxBacklog}

\* a run slot: absent, or present in one of the given statuses
SlotRuns(id, t, date, st) == IF st = "absent" THEN {} ELSE {Run(id, t, date, st)}

Employee(id, code, t, uan, esi, pan) ==
    [id |-> id, employee_id |-> code, tenant_id |-> t, user_id |-> id,
     uan_number |-> uan, esi_number |-> esi, pan_number |-> pan]

\* an employee of t1 whose row in a run is still pending
PendingEmployee == Employee(4, <<"E", "4">>, "t1", <<"4">>, <<"4">>, NULL)

Employees ==
    {Employee(1, <<"E", "1">>, "t1", <<"1", "0", "1">>, NULL, <<"P", "A", "N", "1">>),
     Employee(2, <<"E", "2">>, "t1", NULL, <<"3", "1">>, NULL),
     Employee(3, <<"E", "0">>, "t2", <<"9">>, <<>>, <<"P", "A", "N", "3">>),
     PendingEmployee}

Profile(id, first, last) == [id |-> id, first_name |-> first, last_name |-> last]

Profiles ==
    {Profile(1, <<"J", "o", "e">>, <<"L", "e", "e", " ">>),
     Profile(2, NULL, <<"a", "n", "n", "a">>),
     Profile(3, <<"H", "a", "l">>, NULL),
     Profile(4, <<"N", "e", "o">>, <<"M", "a", "n">>)}

Metadata(keys, pf, tds) ==
    [k \in keys |-> IF k = "pf_cents" THEN pf ELSE tds]

PayFigures ==
    {[gross_pay_cents |-> 1200050, metadata |-> Metadata({"pf_cents", "tds_cents"}, 150, 49)],
     [gross_pay_cents |-> 2000000, metadata |-> Metadata({"pf_cents", "tds_cents"}, 240000, 15050)],
     [gross_pay_cents |-> 2100000, metadata |-> Metadata({}, 0, 0)],
     [gross_pay_cents |-> 2100001, metadata |-> Metadata({"pf_cents", "tds_cents"}, 50, 0)]}

RunEmployee(run, emp, st, pay) ==
    [payroll_run_id |-> run, employee_id |-> emp, status |-> st,
     gross_pay_cents |-> pay.gross_pay_cents, metadata |-> pay.metadata]

Organization(t, name, pf, esi, pan, tan) ==
    [id |-> t, name |-> name, pf_code |-> pf, esi_code |-> esi,
     company_pan |-> pan, company_tan |-> tan]

AcmeName == <<"A", "e", "o", "n">>

OrgChoices(t) ==
    {{},
     {Organization(t, NULL, NULL, NULL, NULL, NULL)},
     {Organization(t, AcmeName, <<>>, <<"E", "1">>, <<"P", "1">>, <<"A", "1">>)},
     {Organization(t, AcmeName, <<"M", "H", "/", "1">>, NULL, <<"P", "1">>, NULL)},
     {Organization(t, NULL, <<"M", "H", "/", "1">>, <<"E", "1">>, NULL, <<"A", "1">>)}}

FullOrg(t) ==
    Organization(t, AcmeName, <<"M", "H", "/", "2">>, <<"E", "2">>, <<"P", "2">>, <<"A", "2">>)

LowPay == CHOOSE p \in PayFigures : p.gross_pay_cents = 1200050

HighPay == CHOOSE p \in PayFigures : p.gross_pay_cents = 2000000

\* the row of one employee in one run: missing, or processed with some figures
RowChoices(run, emp) ==
    {{}} \cup {{RunEmployee(run, emp, "processed", p)} : p \in PayFigures}

\* rows that are the same in every store: an employee of the other tenant
\* entered in run 2, one employee in run 1, a pending row, the other tenant's run
FixedRows ==
    {RunEmployee(2, 3, "processed", LowPay),
     RunEmployee(1, 1, "processed", HighPay),
     RunEmployee(2, 4, "pending", LowPay),
     RunEmployee(4, 3, "processed", HighPay)}

\* rows exist only for runs that exist
RowsOf(runs, rows) ==
    {r \in rows : \E run \in runs : run.id = r.payroll_run_id}

Stores ==
    {[payroll_runs |-> runs,
      organizations |-> o1 \cup {FullOrg("t2")},
      employees |-> Employees,
      profiles |-> Profiles,
      payroll_run_employees |-> RowsOf(runs, a \cup b \cup FixedRows)] :
        runs \in {SlotRuns(1, "t1", PayDate(2024, 1, 10), s[1])
                  \cup SlotRuns(2, "t1", PayDate(2024, 1, 20), s[2])
                  \cup SlotRuns(3, "t1", PayDate(2024, 2, 5), s[3])
                  \cup {Run(4, "t2", PayDate(2024, 1, 25), "completed")}
                  \cup BacklogRuns(s[4]) :
                    s \in {"absent", "completed"}
                          \X {"absent", "draft", "completed"}
                          \X {"absent", "processing", "completed"}
                          \X Backlogs},
        o1 \in OrgChoices("t1"),
        a \in RowChoices(2, 1),
        b \in RowChoices(2, 2)}

\* the characters that delimit fields and lines, and one that does not
TextChars == {"a", ",", "\"", "\n", "|"}

\* every text of at most MaxTextLen of these characters
Texts == UNION {[1..k -> TextChars] : k \in 0..MaxTextLen}

\* first names that hold a delimiter, and one that holds none
FirstNames ==
    {<<"J", "o", "e">>,
     <<"D", "o", "e", ",">>,
     <<"J", "|", "o">>,
     <<"a", "\"", "n">>,
     <<"a", "\n", "n">>}

\* stores of one completed run whose first employee has a drawn identifier
\* (as UAN and as ESI number) and a drawn first name
TextStores ==
    {[payroll_runs |-> {Run(2, "t1", PayDate(2024, 1, 20), "completed")},
      organizations |-> {FullOrg("t1")},
      employees |-> {Employee(1, <<"E", "1">>, "t1", id, id, NULL),
                     Employee(2, <<"E", "2">>, "t1", NULL, <<"3", "1">>, NULL)},
      profiles |-> {Profile(1, first, <<"J", "o", "h", "n">>),
                    Profile(2, NULL, <<"a", "n", "n", "a">>)},
      payroll_run_employees |-> {RunEmployee(2, 1, "processed", LowPay),
                                 RunEmployee(2, 2, "processed", HighPay)}] :
        id \in Texts \cup {NULL},
        first \in FirstNames}

\* months of 28, 29, 30 and 31 days; leap, common and century years
CalendarPeriods ==
    {<<2, 2023>>, <<2, 2000>>, <<2, 1900>>, <<2, 2100>>, <<4, 2023>>,
     <<6, 2023>>, <<9, 2023>>, <<11, 2023>>, <<12, 2023>>, <<3, 2023>>}

\* stores of one completed run paid in a drawn month and year
CalendarStores ==
    {[payroll_runs |-> {Run(2, "t1", PayDate(p[2], p[1], 15), "completed")},
      organizations |-> {FullOrg("t1")},
      employees |-> Employees,
      profiles |-> Profiles,
      payroll_run_employees |-> {RunEmployee(2, 1, "processed", f),
                                 RunEmployee(2, 2, "processed", LowPay)}] :
        p \in CalendarPeriods,
        f \in PayFigures}

FormatStores == TextStores \cup CalendarStores

(***************************************************************************)
(* One report request: its position and its locals.                        *)
(***************************************************************************)
Builders == {"generatePFECR", "generateESIReturn", "generateTDSSummary"}

Periods == {<<1, 2024>>, <<2, 2024>>}

(***************************************************************************)
(* The tax declaration page: values, the api's answers, the initial state. *)
(* Amounts are numbers of hundredths, so that 250.00 and 12.5 are exact.   *)
(***************************************************************************)
\* the day the page is opened; month is 0-based as in Date.getMonth()
Today == [year |-> 2024, month |-> 5]

\* `${startYear}-${startYear + 1}`
FinancialYearText(startYear) ==
    String(startYear) \o <<"-">> \o String(startYear + 1)

getCurrentFinancialYear ==
    LET startYear == IF Today.month >= 3 THEN Today.year ELSE Today.year - 1
    IN  FinancialYearText(startYear)

\* the number of leading decimal digits of a text
DigitPrefixLen(s) ==
    LET stops == {i \in 1..Len(s) : s[i] \notin {Digit[k] : k \in 1..Len(Digit)}}
    IN  IF stops = {} THEN Len(s)
        ELSE (CHOOSE i \in stops : \A j \in stops : i <= j) - 1

RECURSIVE DecimalValue(_)
DecimalValue(s) ==
    IF s = <<>> THEN 0
    ELSE DecimalValue(SubSeq(s, 1, Len(s) - 1)) * 10
         + (CHOOSE k \in 0..9 : Digit[k + 1] = s[Len(s)])

\* parseInt(text, 10) of a text that starts with a digit
parseInt(s) == DecimalValue(SubSeq(s, 1, DigitPrefixLen(s)))

financialYearOptions ==
    LET startYear == parseInt(getCurrentFinancialYear)
    IN  <<FinancialYearText(startYear - 1), FinancialYearText(startYear),
          FinancialYearText(startYear + 1)>>

\* parseFloat(text) of a numeral with up to two decimals, in hundredths
parseFloat(s) ==
    LET n == DigitPrefixLen(s)
        rest == IF Len(s) > n /\ s[n + 1] = "." THEN SubSeq(s, n + 2, Len(s))
                ELSE <<>>
        f == SubSeq(rest, 1, DigitPrefixLen(rest))
        hundredths == CASE Len(f) = 0 -> 0
                        [] Len(f) = 1 -> DecimalValue(f) * 10
                        [] OTHER -> DecimalValue(SubSeq(f, 1, 2))
    IN  DecimalValue(SubSeq(s, 1, n)) * 100 + hundredths

\* Number(value || 0) of the text of a number input: '' reads as 0
NumberOrZero(text) == IF Truthy(text) THEN parseFloat(text) ELSE 0

\* Number.prototype.toString() of a non-negative number of hundredths
NumberText(h) ==
    CASE h % 100 = 0 -> String(h \div 100)
      [] h % 10 = 0 -> String(h \div 100) \o <<".", Digit[((h % 100) \div 10) + 1]>>
      [] OTHER -> String(h \div 100)
                  \o <<".", Digit[((h % 100) \div 10) + 1], Digit[(h % 10) + 1]>>

\* the text the api returns for a stored amount: always two decimals
AmountColumnText(h) ==
    String(h \div 100) \o <<".", Digit[((h % 100) \div 10) + 1], Digit[(h % 10) + 1]>>

\* TaxComponentDefinition
Definition(id, section) == [id |-> id, label |-> section, section |-> section]

\* api.getTaxDefinitions(financialYear), as <<list>> or as <<>> for null:
\* null for the earliest year, one component for each of the other two
TaxDefinitions(fy) ==
    CASE fy = financialYearOptions[2] -> <<(<<Definition("c1", "80C")>>)>>
      [] fy = financialYearOptions[3] -> <<(<<Definition("c3", "80D")>>)>>
      [] OTHER -> <<>>

\* TaxDeclaration and the absent declaration (null)
Declaration(fy, chosen, status) ==
    [id |-> fy, financial_year |-> fy, chosen_regime |-> chosen,
     status |-> status]

NoDeclaration == [id |-> <<>>]

\* TaxDeclarationItem
Item(component, amount, proof) ==
    [id |-> component, component_id |-> component, declared_amount |-> amount,
     proof_url |-> proof]

\* what the api holds for the employee before the page is opened
EmptyServer ==
    [fy \in {financialYearOptions[k] : k \in 1..3} |->
        [declaration |-> NoDeclaration, items |-> <<>>]]

FiledServer ==
    [EmptyServer EXCEPT
        ![financialYearOptions[1]] =
            [declaration |-> Declaration(financialYearOptions[1], "old", "approved"),
             items |-> <<>>],
        ![financialYearOptions[2]] =
            [declaration |-> Declaration(financialYearOptions[2], "new", "draft"),
             items |-> <<Item("c1", AmountColumnText(25000), NULL)>>],
        ![financialYearOptions[3]] =
            [declaration |-> Declaration(financialYearOptions[3], "old", "rejected"),
             items |-> <<Item("c3", AmountColumnText(0), <<"p">>)>>]]

ServerStores == {EmptyServer, FiledServer}

\* the texts the user leaves in the amount and proof inputs
AmountTexts == {<<>>, <<"2", "5", "0">>}

ProofTexts == {<<"p">>}

NoSave == [pc |-> "idle"]

\* the useState initial values, before the first effect has run
PageUnmounted ==
    /\ financialYear = getCurrentFinancialYear
    /\ definitions = <<>>
    /\ declaration = NoDeclaration
    /\ items = <<>>
    /\ formItems = <<>>
    /\ regime = "old"
    /\ loading = FALSE
    /\ saving = FALSE
    /\ showOnlyMarked = FALSE
    /\ mounted = FALSE
    /\ loads = <<>>
    /\ saveCall = NoSave
    /\ server = EmptyServer
    /\ selections = 0
    /\ saves = 0

NoRun == [id |-> 0]

NoOrg == [id |-> ""]

NoResult == [kind |-> "none"]

NoError == [message |-> ""]

\* the periods callers ask about: the two base periods and every period in
\* which the store has a completed run
RequestPeriods ==
    Periods \cup {<<r.pay_date.month, r.pay_date.year>> :
                    r \in {x \in db.payroll_runs : x.status = "completed"}}

Init ==
    /\ PageUnmounted
    /\ db \in Stores
    /\ pc = "idle"
    /\ fn = ""
    /\ args = [tenantId |-> "", month |-> 0, year |-> 0]
    /\ payrollRun = NoRun
    /\ org = NoOrg
    /\ employeesResult = <<>>
    /\ result = NoResult
    /\ raised = NoError
    /\ delivered = NoError
    /\ queries = <<>>
    /\ logged = <<>>

\* a caller invokes one of the exported builders
Call ==
    /\ UNCHANGED pageVars
    /\ pc = "idle"
    /\ \E f \in Builders, t \in Tenants, p \in RequestPeriods :
          /\ fn' = f
          /\ args' = [tenantId |-> t, month |-> p[1], year |-> p[2]]
    /\ pc' = "lookup"
    /\ UNCHANGED <<db, payrollRun, org, employeesResult, result, raised,
                   delivered, queries, logged>>

(***************************************************************************)
(* getPayrollRunForMonth                                                   *)
(***************************************************************************)
DateLess(a, b) ==
    \/ a.year < b.year
    \/ a.year = b.year /\ a.month < b.month
    \/ a.year = b.year /\ a.month = b.month /\ a.day < b.day

\* the period query with its status condition left out
PeriodRuns_AnyStatus(t, m, y) ==
    {r \in db.payroll_runs :
        /\ r.tenant_id = t
        /\ r.pay_date.month = m
        /\ r.pay_date.year = y}

\* WHERE tenant_id = $1 AND month = $2 AND year = $3 AND status = 'completed'
PeriodRuns(t, m, y) ==
    {r \in db.payroll_runs :
        /\ r.tenant_id = t
        /\ r.pay_date.month = m
        /\ r.pay_date.year = y
        /\ r.status = "completed"}

\* ORDER BY pay_date DESC LIMIT 1: any of the rows with the latest pay date
LatestRuns(S) ==
    {r \in S : \A o \in S : ~DateLess(r.pay_date, o.pay_date)}

RunRow(r) == [id |-> r.id, pay_date |-> r.pay_date, status |-> r.status]

\* the first query and the test on its row count
FindRun ==
    /\ UNCHANGED pageVars
    /\ pc = "lookup"
    /\ queries' = Append(queries, "payroll_runs.period")
    /\ LET S == PeriodRuns(args.tenantId, args.month, args.year)
       IN  IF S = {}
           THEN pc' = "diagnose" /\ UNCHANGED payrollRun
           ELSE /\ \E r \in LatestRuns(S) : payrollRun' = RunRow(r)
                /\ pc' = "org"
    /\ UNCHANGED <<db, fn, args, org, employeesResult, result, raised,
                   delivered, logged>>

\* GROUP BY month, year, status over the tenant's runs
RunGroups(t) ==
    {[month |-> r.pay_date.month, year |-> r.pay_date.year, status |-> r.status] :
        r \in {x \in db.payroll_runs : x.tenant_id = t}}

\* ORDER BY year DESC, month DESC
GroupBefore(a, b) ==
    a.year > b.year \/ (a.year = b.year /\ a.month > b.month)

DiagLimit == 10

\* every row sequence that ORDER BY year DESC, month DESC LIMIT n may return
RECURSIVE TopGroups(_, _)
TopGroups(G, n) ==
    IF n = 0 \/ G = {} THEN {<<>>}
    ELSE UNION {{<<g>> \o rest : rest \in TopGroups(G \ {g}, n - 1)} :
                  g \in {x \in G : \A o \in G : ~GroupBefore(o, x)}}

\* the test of  .filter(row => row.status === 'completed')
IsCompleted(row) == row.status = "completed"

StatusText(st) ==
    CASE st = "draft" -> <<"d", "r", "a", "f", "t">>
      [] st = "processing" -> <<"p", "r", "o", "c", "e", "s", "s", "i", "n", "g">>
      [] st = "completed" -> <<"c", "o", "m", "p", "l", "e", "t", "e", "d">>

\* `${row.month}/${row.year}`
PeriodText(row) == String(row.month) \o <<"/">> \o String(row.year)

\* `${row.month}/${row.year} (${row.status})`
PeriodStatusText(row) ==
    PeriodText(row) \o <<" ", "(">> \o StatusText(row.status) \o <<")">>

CommaSpace == <<",", " ">>

\* the message of the error thrown when no completed run matches the period
DiagnosticError(month, year, rows) ==
    LET completed == SelectSeq(rows, IsCompleted)
        availableRuns ==
            join([i \in 1..Len(completed) |-> PeriodText(completed[i])], CommaSpace)
        allRuns ==
            join([i \in 1..Len(rows) |-> PeriodStatusText(rows[i])], CommaSpace)
    IN  IF Len(rows) > 0
        THEN IF availableRuns # <<>>
             THEN [message |-> "No completed payroll run found for {month}/{year}. Available completed payroll runs: {runs}.",
                   month |-> month, year |-> year, runs |-> availableRuns]
             ELSE [message |-> "No completed payroll run found for {month}/{year}. Available payroll runs: {runs}. Please complete a payroll run first.",
                   month |-> month, year |-> year, runs |-> allRuns]
        ELSE [message |-> "No completed payroll run found for {month}/{year}. No payroll runs found for this organization. Please create and process a payroll run first.",
              month |-> month, year |-> year, runs |-> <<>>]

\* the second query, the message and the throw
Diagnose ==
    /\ UNCHANGED pageVars
    /\ pc = "diagnose"
    /\ queries' = Append(queries, "payroll_runs.all")
    /\ \E rows \in TopGroups(RunGroups(args.tenantId), DiagLimit) :
          raised' = DiagnosticError(args.month, args.year, rows)
    /\ pc' = "catch"
    /\ UNCHANGED <<db, fn, args, payrollRun, org, employeesResult, result,
                   delivered, logged>>

(***************************************************************************)
(* What the three builders share.                                          *)
(***************************************************************************)
\* the organization query without its WHERE clause
OrgRows_AnyTenant(t) == db.organizations

\* SELECT ... FROM organizations WHERE id = $1
OrgRows(t) == {o \in db.organizations : o.id = t}

OrganizationNotFound == [message |-> "Organization not found"]

\* FROM payroll_run_employees pre JOIN employees e ON e.id = pre.employee_id
\* JOIN profiles p ON p.id = e.user_id
\* WHERE pre.payroll_run_id = $1 AND pre.status = 'processed' AND e.tenant_id = $2
JoinedRows(runId, t) ==
    {[pre |-> pre, e |-> e, p |-> p] :
        pre \in {x \in db.payroll_run_employees :
                    x.payroll_run_id = runId /\ x.status = "processed"},
        e \in {x \in db.employees : x.tenant_id = t},
        p \in db.profiles}

Joined(runId, t) ==
    {j \in JoinedRows(runId, t) :
        j.e.id = j.pre.employee_id /\ j.p.id = j.e.user_id}

\* COALESCE(p.first_name || ' ' || p.last_name, p.first_name, p.last_name, '')
EmployeeName(p) ==
    IF p.first_name # NULL /\ p.last_name # NULL
    THEN p.first_name \o <<" ">> \o p.last_name
    ELSE IF p.first_name # NULL THEN p.first_name
    ELSE IF p.last_name # NULL THEN p.last_name
    ELSE <<>>

\* COALESCE((pre.metadata->>key)::bigint, 0)
MetadataCents(pre, key) ==
    IF key \in DOMAIN pre.metadata THEN pre.metadata[key] ELSE 0

\* LEAST(a, b)
LEAST(a, b) == IF a <= b THEN a ELSE b

\* the rows in any order: the query without its ORDER BY
RECURSIVE OrderedByEmployeeId_Unordered(_)
OrderedByEmployeeId_Unordered(R) ==
    IF R = {} THEN {<<>>}
    ELSE UNION {{<<r>> \o rest : rest \in OrderedByEmployeeId_Unordered(R \ {r})} :
                  r \in R}

\* every row sequence that ORDER BY e.employee_id may return
RECURSIVE OrderedByEmployeeId(_)
OrderedByEmployeeId(R) ==
    IF R = {} THEN {<<>>}
    ELSE UNION {{<<r>> \o rest : rest \in OrderedByEmployeeId(R \ {r})} :
                  r \in {x \in R : \A o \in R :
                            ~TextLess(o.employee_id, x.employee_id)}}

\* Array.prototype.reduce((sum, x) => sum + x, 0)
RECURSIVE SumSeq(_)
SumSeq(s) == IF Len(s) = 0 THEN 0 ELSE s[1] + SumSeq(Tail(s))

Newline == <<"\n">>

\* a catch block that throws a new error in place of the one it caught
Catch_Wrapped(builder, prefix) ==
    /\ UNCHANGED pageVars
    /\ pc = "catch"
    /\ fn = builder
    /\ logged' = Append(logged, [prefix |-> prefix, error |-> raised])
    /\ delivered' = [message |-> "Failed to generate report"]
    /\ pc' = "failed"
    /\ UNCHANGED <<db, fn, args, payrollRun, org, employeesResult, result,
                   raised, queries>>

\* catch (error) { console.error(prefix, error); throw error; }
Catch(builder, prefix) ==
    /\ UNCHANGED pageVars
    /\ pc = "catch"
    /\ fn = builder
    /\ logged' = Append(logged, [prefix |-> prefix, error |-> raised])
    /\ delivered' = raised
    /\ pc' = "failed"
    /\ UNCHANGED <<db, fn, args, payrollRun, org, employeesResult, result,
                   raised, queries>>

(***************************************************************************)
(* generatePFECR                                                           *)
(***************************************************************************)
PFCodeNotConfigured == [message |-> "PF Code not configured for organization"]

NoEmployeesFound == [message |-> "No employees found in payroll run"]

EpfWageCeiling == 1500000

\* a check that takes only NULL for a missing code
PFCodeBlank_NullOnly(o) == o.pf_code = NULL

\* !org.pf_code
PFCodeBlank(o) == ~Truthy(o.pf_code)

\* the organization query and the two checks on its result
PFFetchOrg ==
    /\ UNCHANGED pageVars
    /\ pc = "org"
    /\ fn = "generatePFECR"
    /\ queries' = Append(queries, "organizations")
    /\ LET rows == OrgRows(args.tenantId)
       IN  IF rows = {}
           THEN raised' = OrganizationNotFound /\ pc' = "catch" /\ UNCHANGED org
           ELSE \E o \in rows :
                  /\ org' = [name |-> o.name, pf_code |-> o.pf_code,
                             company_pan |-> o.company_pan]
                  /\ IF PFCodeBlank(o)
                     THEN raised' = PFCodeNotConfigured /\ pc' = "catch"
                     ELSE pc' = "employees" /\ UNCHANGED raised
    /\ UNCHANGED <<db, fn, args, payrollRun, employeesResult, result,
                   delivered, logged>>

\* the projection with the wage ceiling left out
PFRow_NoCeiling(j) ==
    [employee_id |-> j.e.employee_id,
     uan_number |-> j.e.uan_number,
     employee_name |-> EmployeeName(j.p),
     gross_pay_cents |-> j.pre.gross_pay_cents,
     pf_contribution_cents |-> MetadataCents(j.pre, "pf_cents"),
     epf_wages_cents |-> j.pre.gross_pay_cents,
     eps_wages_cents |-> j.pre.gross_pay_cents]

PFRow(j) ==
    [employee_id |-> j.e.employee_id,
     uan_number |-> j.e.uan_number,
     employee_name |-> EmployeeName(j.p),
     gross_pay_cents |-> j.pre.gross_pay_cents,
     pf_contribution_cents |-> MetadataCents(j.pre, "pf_cents"),
     epf_wages_cents |-> LEAST(j.pre.gross_pay_cents, EpfWageCeiling),
     eps_wages_cents |-> LEAST(j.pre.gross_pay_cents, EpfWageCeiling)]

PFRows(runId, t) == {PFRow(j) : j \in Joined(runId, t)}

\* the employee query without the test on its row count
PFFetchEmployees_NoEmptyCheck ==
    /\ UNCHANGED pageVars
    /\ pc = "employees"
    /\ fn = "generatePFECR"
    /\ queries' = Append(queries, "payroll_run_employees")
    /\ \E rows \in OrderedByEmployeeId(PFRows(payrollRun.id, args.tenantId)) :
          employeesResult' = rows
    /\ pc' = "serialize"
    /\ UNCHANGED <<db, fn, args, payrollRun, org, result, raised, delivered,
                   logged>>

\* the employee query and the test on its row count
PFFetchEmployees ==
    /\ UNCHANGED pageVars
    /\ pc = "employees"
    /\ fn = "generatePFECR"
    /\ queries' = Append(queries, "payroll_run_employees")
    /\ \E rows \in OrderedByEmployeeId(PFRows(payrollRun.id, args.tenantId)) :
          /\ employeesResult' = rows
          /\ IF Len(rows) = 0
             THEN raised' = NoEmployeesFound /\ pc' = "catch"
             ELSE pc' = "serialize" /\ UNCHANGED raised
    /\ UNCHANGED <<db, fn, args, payrollRun, org, result, delivered, logged>>

\* a header whose EPS and EDLI totals add up the per-employee figures
PFHeader_SumOfDerived(o, month, year, rows) ==
    LET totalEPF == SumSeq([i \in 1..Len(rows) |-> rows[i].pf_contribution_cents])
        totalEPS == SumSeq([i \in 1..Len(rows) |->
                        RoundEPS(ToRupees(rows[i].pf_contribution_cents))])
        totalEDLI == SumSeq([i \in 1..Len(rows) |->
                        RoundEDLI(ToRupees(rows[i].pf_contribution_cents))])
    IN  <<OrEmpty(o.pf_code),
          padStart(String(month), 2, "0"),
          String(year),
          String(Len(rows)),
          String(ToRupees(totalEPF)),
          String(totalEPS),
          String(totalEDLI)>>

PFHeader(o, month, year, rows) ==
    LET totalEPF == SumSeq([i \in 1..Len(rows) |-> rows[i].pf_contribution_cents])
        totalEPS == RoundEPS(totalEPF)
        totalEDLI == RoundEDLI(totalEPF)
    IN  <<OrEmpty(o.pf_code),
          padStart(String(month), 2, "0"),
          String(year),
          String(Len(rows)),
          String(ToRupees(totalEPF)),
          String(ToRupees(totalEPS)),
          String(ToRupees(totalEDLI))>>

PFRecord(emp) ==
    LET uan == OrEmpty(emp.uan_number)
        name == toUpperCase(trim(OrEmpty(emp.employee_name)))
        grossWages == ToRupees(emp.gross_pay_cents)
        epfWages == ToRupees(emp.epf_wages_cents)
        epsWages == ToRupees(emp.eps_wages_cents)
        epfContribution == ToRupees(emp.pf_contribution_cents)
        epsContribution == RoundEPS(epfContribution)
        edliContribution == RoundEDLI(epfContribution)
    IN  <<uan, name, String(grossWages), String(epfWages), String(epsWages),
          String(epfContribution), String(epsContribution),
          String(edliContribution)>>

Pipe == <<"|">>

\* a serializer that also marks the run as reported in the store
PFSerialize_MarksRun ==
    /\ UNCHANGED pageVars
    /\ pc = "serialize"
    /\ fn = "generatePFECR"
    /\ LET fields == <<PFHeader(org, args.month, args.year, employeesResult)>>
                     \o [i \in 1..Len(employeesResult) |->
                            PFRecord(employeesResult[i])]
           lines == [i \in 1..Len(fields) |-> join(fields[i], Pipe)]
       IN  result' = [kind |-> "text", fields |-> fields,
                      text |-> join(lines, Newline)]
    /\ db' = [db EXCEPT !.payroll_runs =
                 {IF r.id = payrollRun.id THEN [r EXCEPT !.status = "reported"]
                  ELSE r : r \in db.payroll_runs}]
    /\ pc' = "done"
    /\ UNCHANGED <<fn, args, payrollRun, org, employeesResult, raised,
                   delivered, queries, logged>>

\* the header, one record per row, and the joined text
PFSerialize ==
    /\ UNCHANGED pageVars
    /\ pc = "serialize"
    /\ fn = "generatePFECR"
    /\ LET fields == <<PFHeader(org, args.month, args.year, employeesResult)>>
                     \o [i \in 1..Len(employeesResult) |->
                            PFRecord(employeesResult[i])]
           lines == [i \in 1..Len(fields) |-> join(fields[i], Pipe)]
       IN  result' = [kind |-> "text", fields |-> fields,
                      text |-> join(lines, Newline)]
    /\ pc' = "done"
    /\ UNCHANGED <<db, fn, args, payrollRun, org, employeesResult, raised,
                   delivered, queries, logged>>

PFCatch == Catch("generatePFECR", "Error generating PF ECR:")

(***************************************************************************)
(* generateESIReturn                                                       *)
(***************************************************************************)
NoEmployeesEligible ==
    [message |-> "No employees eligible for ESI in this payroll run"]

EsiWageCeiling == 2100000

\* an organization step that demands an ESI code as PF demands a PF code
ESIFetchOrg_RequiresCode ==
    /\ UNCHANGED pageVars
    /\ pc = "org"
    /\ fn = "generateESIReturn"
    /\ queries' = Append(queries, "organizations")
    /\ LET rows == OrgRows(args.tenantId)
       IN  IF rows = {}
           THEN raised' = OrganizationNotFound /\ pc' = "catch" /\ UNCHANGED org
           ELSE \E o \in rows :
                  /\ org' = [esi_code |-> o.esi_code]
                  /\ IF ~Truthy(o.esi_code)
                     THEN /\ raised' = [message |-> "ESI Code not configured for organization"]
                          /\ pc' = "catch"
                     ELSE pc' = "employees" /\ UNCHANGED raised
    /\ UNCHANGED <<db, fn, args, payrollRun, employeesResult, result,
                   delivered, logged>>

\* the organization query and the check on its result
ESIFetchOrg ==
    /\ UNCHANGED pageVars
    /\ pc = "org"
    /\ fn = "generateESIReturn"
    /\ queries' = Append(queries, "organizations")
    /\ LET rows == OrgRows(args.tenantId)
       IN  IF rows = {}
           THEN raised' = OrganizationNotFound /\ pc' = "catch" /\ UNCHANGED org
           ELSE /\ \E o \in rows : org' = [esi_code |-> o.esi_code]
                /\ pc' = "employees"
                /\ UNCHANGED raised
    /\ UNCHANGED <<db, fn, args, payrollRun, employeesResult, result,
                   delivered, logged>>

\* a leap-year rule without the century exceptions
IsLeapYear_EveryFourth(y) == y % 4 = 0

IsLeapYear(y) == (y % 4 = 0 /\ y % 100 # 0) \/ y % 400 = 0

\* new Date(year, month, 0).getDate() for month in 1..12: the last day of
\* that month; Date takes a year in 0..99 as 1900 + year
DaysInMonth(year, month) ==
    LET y == IF year >= 0 /\ year <= 99 THEN 1900 + year ELSE year
    IN  IF month = 2 THEN (IF IsLeapYear(y) THEN 29 ELSE 28)
        ELSE IF month \in {4, 6, 9, 11} THEN 30
        ELSE 31

ESIRow(j, days) ==
    [employee_id |-> j.e.employee_id,
     esi_number |-> j.e.esi_number,
     employee_name |-> EmployeeName(j.p),
     gross_pay_cents |-> j.pre.gross_pay_cents,
     days_worked |-> days]

\* the eligibility condition written with < in place of <=
ESIRows_StrictCeiling(runId, t, days) ==
    {ESIRow(j, days) :
        j \in {x \in Joined(runId, t) :
                  x.pre.gross_pay_cents < EsiWageCeiling}}

\* ... AND pre.gross_pay_cents <= 2100000
ESIRows(runId, t, days) ==
    {ESIRow(j, days) :
        j \in {x \in Joined(runId, t) :
                  x.pre.gross_pay_cents <= EsiWageCeiling}}

\* the employee query and the test on its row count
ESIFetchEmployees ==
    /\ UNCHANGED pageVars
    /\ pc = "employees"
    /\ fn = "generateESIReturn"
    /\ queries' = Append(queries, "payroll_run_employees")
    /\ LET daysInMonth == DaysInMonth(args.year, args.month)
       IN  \E rows \in OrderedByEmployeeId(
                          ESIRows(payrollRun.id, args.tenantId, daysInMonth)) :
              /\ employeesResult' = rows
              /\ IF Len(rows) = 0
                 THEN raised' = NoEmployeesEligible /\ pc' = "catch"
                 ELSE pc' = "serialize" /\ UNCHANGED raised
    /\ UNCHANGED <<db, fn, args, payrollRun, org, result, delivered, logged>>

Includes(s, c) == \E i \in 1..Len(s) : s[i] = c

\* str.replace(/"/g, '""')
RECURSIVE DoubleQuotes(_)
DoubleQuotes(s) ==
    IF Len(s) = 0 THEN <<>>
    ELSE IF s[1] = "\"" THEN <<"\"", "\"">> \o DoubleQuotes(Tail(s))
    ELSE <<s[1]>> \o DoubleQuotes(Tail(s))

\* an escape that wraps the value but leaves its quotes single
escapeCSV_NoDoubling(str) ==
    IF Includes(str, ",") \/ Includes(str, "\"") \/ Includes(str, "\n")
    THEN <<"\"">> \o str \o <<"\"">>
    ELSE str

escapeCSV(str) ==
    IF Includes(str, ",") \/ Includes(str, "\"") \/ Includes(str, "\n")
    THEN <<"\"">> \o DoubleQuotes(str) \o <<"\"">>
    ELSE str

ESIHeaderLine ==
    <<"I", "P", " ", "N", "u", "m", "b", "e", "r", ",",
      "I", "P", " ", "N", "a", "m", "e", ",",
      "D", "a", "y", "s", " ", "W", "o", "r", "k", "e", "d", ",",
      "W", "a", "g", "e", "s">>

ESIRecord(emp, daysInMonth) ==
    LET ipNumber == IF Truthy(emp.esi_number) THEN emp.esi_number
                    ELSE OrEmpty(emp.employee_id)
        ipName == trim(OrEmpty(emp.employee_name))
        daysWorked == IF emp.days_worked # 0 THEN emp.days_worked ELSE daysInMonth
        wages == ToRupees(emp.gross_pay_cents)
    IN  <<escapeCSV(ipNumber), escapeCSV(ipName), escapeCSV(String(daysWorked)),
          escapeCSV(String(wages))>>

Comma == <<",">>

\* the header line, one record per row, and the joined text
ESISerialize ==
    /\ UNCHANGED pageVars
    /\ pc = "serialize"
    /\ fn = "generateESIReturn"
    /\ LET daysInMonth == DaysInMonth(args.year, args.month)
           fields == [i \in 1..Len(employeesResult) |->
                         ESIRecord(employeesResult[i], daysInMonth)]
           lines == <<ESIHeaderLine>>
                    \o [i \in 1..Len(fields) |-> join(fields[i], Comma)]
       IN  result' = [kind |-> "text", fields |-> fields,
                      text |-> join(lines, Newline)]
    /\ pc' = "done"
    /\ UNCHANGED <<db, fn, args, payrollRun, org, employeesResult, raised,
                   delivered, queries, logged>>

ESICatch == Catch("generateESIReturn", "Error generating ESI Return:")

(***************************************************************************)
(* generateTDSSummary                                                      *)
(***************************************************************************)
\* an organization step that goes on without an organization row
TDSFetchOrg_NoCheck ==
    /\ UNCHANGED pageVars
    /\ pc = "org"
    /\ fn = "generateTDSSummary"
    /\ queries' = Append(queries, "organizations")
    /\ LET rows == OrgRows(args.tenantId)
       IN  IF rows = {}
           THEN org' = [name |-> NULL, company_pan |-> NULL,
                        company_tan |-> NULL]
           ELSE \E o \in rows :
                  org' = [name |-> o.name, company_pan |-> o.company_pan,
                          company_tan |-> o.company_tan]
    /\ pc' = "employees"
    /\ UNCHANGED <<db, fn, args, payrollRun, employeesResult, result, raised,
                   delivered, logged>>

\* the organization query and the check on its result
TDSFetchOrg ==
    /\ UNCHANGED pageVars
    /\ pc = "org"
    /\ fn = "generateTDSSummary"
    /\ queries' = Append(queries, "organizations")
    /\ LET rows == OrgRows(args.tenantId)
       IN  IF rows = {}
           THEN raised' = OrganizationNotFound /\ pc' = "catch" /\ UNCHANGED org
           ELSE /\ \E o \in rows :
                      org' = [name |-> o.name, company_pan |-> o.company_pan,
                              company_tan |-> o.company_tan]
                /\ pc' = "employees"
                /\ UNCHANGED raised
    /\ UNCHANGED <<db, fn, args, payrollRun, employeesResult, result,
                   delivered, logged>>

TDSRow(j) ==
    [employee_id |-> j.e.employee_id,
     pan_number |-> j.e.pan_number,
     employee_name |-> EmployeeName(j.p),
     gross_pay_cents |-> j.pre.gross_pay_cents,
     tds_cents |-> MetadataCents(j.pre, "tds_cents")]

\* the positive-figure condition written with >= in place of >
TDSRows_NonNegative(runId, t) ==
    {TDSRow(j) :
        j \in {x \in Joined(runId, t) : MetadataCents(x.pre, "tds_cents") >= 0}}

\* ... AND COALESCE((pre.metadata->>'tds_cents')::bigint, 0) > 0
TDSRows(runId, t) ==
    {TDSRow(j) :
        j \in {x \in Joined(runId, t) : MetadataCents(x.pre, "tds_cents") > 0}}

\* the employee query followed by the row-count test of the other builders
TDSFetchEmployees_FailsOnEmpty ==
    /\ UNCHANGED pageVars
    /\ pc = "employees"
    /\ fn = "generateTDSSummary"
    /\ queries' = Append(queries, "payroll_run_employees")
    /\ \E rows \in OrderedByEmployeeId(TDSRows(payrollRun.id, args.tenantId)) :
          /\ employeesResult' = rows
          /\ IF Len(rows) = 0
             THEN raised' = NoEmployeesFound /\ pc' = "catch"
             ELSE pc' = "serialize" /\ UNCHANGED raised
    /\ UNCHANGED <<db, fn, args, payrollRun, org, result, delivered, logged>>

\* the employee query; any row count goes on
TDSFetchEmployees ==
    /\ UNCHANGED pageVars
    /\ pc = "employees"
    /\ fn = "generateTDSSummary"
    /\ queries' = Append(queries, "payroll_run_employees")
    /\ \E rows \in OrderedByEmployeeId(TDSRows(payrollRun.id, args.tenantId)) :
          employeesResult' = rows
    /\ pc' = "serialize"
    /\ UNCHANGED <<db, fn, args, payrollRun, org, result, raised, delivered,
                   logged>>

TDSRecord(emp) ==
    [employee_id |-> emp.employee_id,
     pan |-> OrEmpty(emp.pan_number),
     name |-> trim(OrEmpty(emp.employee_name)),
     gross_pay |-> ToRupees(emp.gross_pay_cents),
     tds_deducted |-> ToRupees(emp.tds_cents),
     section |-> "192B"]

\* a summary whose totals round the sum of the minor units
TDSSummary_RoundsTheSum(o, month, year, run, rows) ==
    LET records == [i \in 1..Len(rows) |-> TDSRecord(rows[i])]
        cents == [i \in 1..Len(rows) |-> rows[i].tds_cents]
    IN  [organization |-> [name |-> OrEmpty(o.name),
                           pan |-> OrEmpty(o.company_pan),
                           tan |-> OrEmpty(o.company_tan)],
         period |-> [month |-> month, year |-> year, pay_date |-> run.pay_date],
         total_tds |-> ToRupees(SumSeq(cents)),
         total_employees |-> Len(rows),
         by_section |->
             [s \in {"192B"} |->
                 [section |-> "192B",
                  description |-> "Tax Deducted at Source on Salary",
                  total_amount |-> ToRupees(SumSeq(cents)),
                  employee_count |-> 0 + Len(rows),
                  employees |-> records]],
         employees |-> records]

\* the summary object after the forEach over the rows
TDSSummary(o, month, year, run, rows) ==
    LET records == [i \in 1..Len(rows) |-> TDSRecord(rows[i])]
        amounts == [i \in 1..Len(rows) |-> ToRupees(rows[i].tds_cents)]
    IN  [organization |-> [name |-> OrEmpty(o.name),
                           pan |-> OrEmpty(o.company_pan),
                           tan |-> OrEmpty(o.company_tan)],
         period |-> [month |-> month, year |-> year, pay_date |-> run.pay_date],
         total_tds |-> 0 + SumSeq(amounts),
         total_employees |-> Len(rows),
         by_section |->
             [s \in {"192B"} |->
                 [section |-> "192B",
                  description |-> "Tax Deducted at Source on Salary",
                  total_amount |-> 0 + SumSeq(amounts),
                  employee_count |-> 0 + Len(rows),
                  employees |-> records]],
         employees |-> records]

TDSSerialize ==
    /\ UNCHANGED pageVars
    /\ pc = "serialize"
    /\ fn = "generateTDSSummary"
    /\ result' = [kind |-> "summary",
                  summary |-> TDSSummary(org, args.month, args.year,
                                         payrollRun, employeesResult)]
    /\ pc' = "done"
    /\ UNCHANGED <<db, fn, args, payrollRun, org, employeesResult, raised,
                   delivered, queries, logged>>

TDSCatch == Catch("generateTDSSummary", "Error generating TDS Summary:")

(***************************************************************************)
(* Specifications.                                                         *)
(***************************************************************************)
\* the caller has the returned artifact or the thrown error; the locals of
\* the finished call are gone and the next call starts afresh
Return ==
    /\ UNCHANGED pageVars
    /\ pc \in {"done", "failed"}
    /\ pc' = "idle"
    /\ fn' = ""
    /\ args' = [tenantId |-> "", month |-> 0, year |-> 0]
    /\ payrollRun' = NoRun
    /\ org' = NoOrg
    /\ employeesResult' = <<>>
    /\ result' = NoResult
    /\ raised' = NoError
    /\ delivered' = NoError
    /\ queries' = <<>>
    /\ logged' = <<>>
    /\ UNCHANGED db

Next ==
    \/ Call
    \/ FindRun
    \/ Diagnose
    \/ PFFetchOrg
    \/ PFFetchEmployees
    \/ PFSerialize
    \/ PFCatch
    \/ ESIFetchOrg
    \/ ESIFetchEmployees
    \/ ESISerialize
    \/ ESICatch
    \/ TDSFetchOrg
    \/ TDSFetchEmployees
    \/ TDSSerialize
    \/ TDSCatch
    \/ Return

Spec == Init /\ [][Next]_vars

\* the query about to be issued at each position of a request
PendingQuery ==
    CASE pc = "lookup" -> "payroll_runs.period"
      [] pc = "diagnose" -> "payroll_runs.all"
      [] pc = "org" -> "organizations"
      [] pc = "employees" -> "payroll_run_employees"
      [] OTHER -> ""

\* an awaited query(...) rejects: the rejection is thrown where it is awaited
QueryFails ==
    /\ UNCHANGED pageVars
    /\ PendingQuery # ""
    /\ queries' = Append(queries, PendingQuery)
    /\ raised' = [message |-> "query failed", query |-> PendingQuery]
    /\ pc' = "catch"
    /\ UNCHANGED <<db, fn, args, payrollRun, org, employeesResult, result,
                   delivered, logged>>

NextFault == Next \/ QueryFails

\* the same requests against a store whose queries may fail
SpecFault == Init /\ [][NextFault]_vars

InitFormat ==
    /\ PageUnmounted
    /\ db \in FormatStores
    /\ pc = "idle"
    /\ fn = ""
    /\ args = [tenantId |-> "", month |-> 0, year |-> 0]
    /\ payrollRun = NoRun
    /\ org = NoOrg
    /\ employeesResult = <<>>
    /\ result = NoResult
    /\ raised = NoError
    /\ delivered = NoError
    /\ queries = <<>>
    /\ logged = <<>>

\* the same requests against stores that vary the text of the identifiers
\* and names and the month and year of the run
SpecFormat == InitFormat /\ [][Next]_vars

(***************************************************************************)
(* The tax declaration page: loadData.                                     *)
(***************************************************************************)
\* a store for the report builders while the page is the program under study
NoStore ==
    [payroll_runs |-> {}, organizations |-> {}, employees |-> {},
     profiles |-> {}, payroll_run_employees |-> {}]

\* s without its i-th element
RemoveAt(s, i) == SubSeq(s, 1, i - 1) \o SubSeq(s, i + 1, Len(s))

\* loadData up to its await: setLoading(true) and the two api calls, which
\* carry the financial year of the render that made this loadData
StartLoad(owner) ==
    /\ loading' = TRUE
    /\ loads' = Append(loads, [fy |-> financialYear, owner |-> owner])

\* useEffect(() => { loadData() }, [financialYear]) on the first render
Mount ==
    /\ ~mounted
    /\ mounted' = TRUE
    /\ StartLoad("effect")
    /\ UNCHANGED <<financialYear, definitions, declaration, items, formItems,
                   regime, saving, showOnlyMarked, saveCall, server,
                   selections, saves>>
    /\ UNCHANGED reportVars

\* (declResult.items || []).find(item => item.component_id === def.id)
Existing(resultItems, id) ==
    LET hits == {k \in 1..Len(resultItems) : resultItems[k].component_id = id}
    IN  IF hits = {} THEN <<>>
        ELSE <<resultItems[CHOOSE k \in hits : \A j \in hits : k <= j]>>

\* draftState[def.id] of loadData
DraftState(resultItems, id) ==
    LET existing == Existing(resultItems, id)
    IN  IF existing = <<>>
        THEN [declaredAmount |-> <<>>, proofUrl |-> <<>>, include |-> FALSE]
        ELSE [declaredAmount |->
                  IF Truthy(NumberText(parseFloat(existing[1].declared_amount)))
                  THEN NumberText(parseFloat(existing[1].declared_amount))
                  ELSE <<"0">>,
              proofUrl |-> OrEmpty(existing[1].proof_url),
              include |-> parseFloat(existing[1].declared_amount) > 0]

\* handleSave after its awaited loadData: finally { setSaving(false) }
FinishOwner(owner) ==
    IF owner = "save"
    THEN saving' = FALSE /\ saveCall' = NoSave
    ELSE UNCHANGED <<saving, saveCall>>

\* both api calls of one loadData are answered, for the financial year it
\* asked about, and loadData goes on after its await: the setters, then
\* finally { setLoading(false) }
LoadResolves ==
    /\ \E i \in 1..Len(loads) :
          /\ LET answer == TaxDefinitions(loads[i].fy)
                 defs == IF answer = <<>> THEN <<>> ELSE answer[1]
                 declResult == server[loads[i].fy]
             IN  /\ definitions' = defs
                 /\ declaration' = declResult.declaration
                 /\ items' = declResult.items
                 /\ regime' = IF declResult.declaration = NoDeclaration
                              THEN "old"
                              ELSE declResult.declaration.chosen_regime
                 /\ formItems' = [id \in {defs[k].id : k \in 1..Len(defs)} |->
                                     DraftState(declResult.items, id)]
          /\ loading' = FALSE
          /\ loads' = RemoveAt(loads, i)
          /\ FinishOwner(loads[i].owner)
    /\ UNCHANGED <<financialYear, showOnlyMarked, mounted, server,
                   selections, saves>>
    /\ UNCHANGED reportVars

\* one of the two api calls rejects: catch { toast } finally { ... }
LoadRejects ==
    /\ \E i \in 1..Len(loads) :
          /\ loads' = RemoveAt(loads, i)
          /\ FinishOwner(loads[i].owner)
    /\ loading' = FALSE
    /\ UNCHANGED <<financialYear, definitions, declaration, items, formItems,
                   regime, showOnlyMarked, mounted, server, selections, saves>>
    /\ UNCHANGED reportVars

(***************************************************************************)
(* The tax declaration page: the controls.                                 *)
(***************************************************************************)
\* <Select value={financialYear} onValueChange={setFinancialYear}
\* disabled={saving}>, and the effect that the new value triggers
SelectFinancialYear ==
    /\ mounted
    /\ ~saving
    /\ selections < MaxSelections
    /\ \E k \in 1..Len(financialYearOptions) :
          /\ financialYearOptions[k] # financialYear
          /\ financialYear' = financialYearOptions[k]
          /\ loading' = TRUE
          /\ loads' = Append(loads, [fy |-> financialYearOptions[k],
                                     owner |-> "effect"])
    /\ selections' = selections + 1
    /\ UNCHANGED <<definitions, declaration, items, formItems, regime, saving,
                   showOnlyMarked, mounted, saveCall, server, saves>>
    /\ UNCHANGED reportVars

Approved == declaration # NoDeclaration /\ declaration.status = "approved"

\* <Select value={regime} onValueChange={setRegime} disabled={...}>
SelectRegime ==
    /\ mounted
    /\ ~saving
    /\ ~Approved
    /\ regime' = IF regime = "old" THEN "new" ELSE "old"
    /\ UNCHANGED <<financialYear, definitions, declaration, items, formItems,
                   loading, saving, showOnlyMarked, mounted, loads, saveCall,
                   server, selections, saves>>
    /\ UNCHANGED reportVars

\* <Switch checked={showOnlyMarked} onCheckedChange={setShowOnlyMarked}>
ToggleShowOnlyMarked ==
    /\ mounted
    /\ showOnlyMarked' = ~showOnlyMarked
    /\ UNCHANGED <<financialYear, definitions, declaration, items, formItems,
                   regime, loading, saving, mounted, loads, saveCall, server, selections, saves>>
    /\ UNCHANGED reportVars

\* formItems[id] || { declaredAmount: "", proofUrl: "", include: false }
FormState(id) ==
    IF id \in DOMAIN formItems THEN formItems[id]
    ELSE [declaredAmount |-> <<>>, proofUrl |-> <<>>, include |-> FALSE]

filteredDefinitions ==
    LET Marked(def) == FormState(def.id).include
    IN  IF ~showOnlyMarked THEN definitions ELSE SelectSeq(definitions, Marked)

\* the components whose card is rendered with enabled controls
Editable ==
    IF loading \/ Approved \/ ~mounted THEN {}
    ELSE {filteredDefinitions[k].id : k \in 1..Len(filteredDefinitions)}

\* setFormItems(prev => ({ ...prev, [componentId]: state }))
WithFormState(id, state) ==
    [k \in DOMAIN formItems \cup {id} |-> IF k = id THEN state ELSE formItems[k]]

handleToggleInclude ==
    /\ \E id \in Editable :
          LET prev == FormState(id)
              checked == ~prev.include
          IN  formItems' = WithFormState(id,
                  [declaredAmount |-> IF checked THEN OrEmpty(prev.declaredAmount)
                                      ELSE <<>>,
                   proofUrl |-> prev.proofUrl,
                   include |-> checked])
    /\ UNCHANGED <<financialYear, definitions, declaration, items, regime,
                   loading, saving, showOnlyMarked, mounted, loads, saveCall,
                   server, selections, saves>>
    /\ UNCHANGED reportVars

\* the amount input is rendered only under state.include
handleAmountChange ==
    /\ \E id \in Editable, value \in AmountTexts :
          /\ FormState(id).include
          /\ value # FormState(id).declaredAmount
          /\ formItems' = WithFormState(id,
                  [declaredAmount |-> value,
                   proofUrl |-> FormState(id).proofUrl,
                   include |-> TRUE])
    /\ UNCHANGED <<financialYear, definitions, declaration, items, regime,
                   loading, saving, showOnlyMarked, mounted, loads, saveCall,
                   server, selections, saves>>
    /\ UNCHANGED reportVars

handleProofChange ==
    /\ \E id \in Editable, value \in ProofTexts :
          /\ FormState(id).include
          /\ value # FormState(id).proofUrl
          /\ formItems' = WithFormState(id,
                  [declaredAmount |-> FormState(id).declaredAmount,
                   proofUrl |-> value,
                   include |-> FormState(id).include])
    /\ UNCHANGED <<financialYear, definitions, declaration, items, regime,
                   loading, saving, showOnlyMarked, mounted, loads, saveCall,
                   server, selections, saves>>
    /\ UNCHANGED reportVars


(***************************************************************************)
(* The tax declaration page: handleSave.                                   *)
(***************************************************************************)
\* buildPayloadItems without the test on the amount
buildPayloadItems_AnyAmount ==
    LET Kept(def) == def.id \in DOMAIN formItems /\ formItems[def.id].include
        kept == SelectSeq(definitions, Kept)
    IN  [k \in 1..Len(kept) |->
            [component_id |-> kept[k].id,
             declared_amount |-> NumberOrZero(formItems[kept[k].id].declaredAmount),
             proof_url |-> IF Truthy(formItems[kept[k].id].proofUrl)
                           THEN formItems[kept[k].id].proofUrl ELSE NULL]]

\* one payload item per definition whose form state is included with an
\* amount above zero, in the order of the definitions
buildPayloadItems ==
    LET Kept(def) ==
            /\ def.id \in DOMAIN formItems
            /\ formItems[def.id].include
            /\ NumberOrZero(formItems[def.id].declaredAmount) > 0
        kept == SelectSeq(definitions, Kept)
    IN  [k \in 1..Len(kept) |->
            [component_id |-> kept[k].id,
             declared_amount |-> NumberOrZero(formItems[kept[k].id].declaredAmount),
             proof_url |-> IF Truthy(formItems[kept[k].id].proofUrl)
                           THEN formItems[kept[k].id].proofUrl ELSE NULL]]

\* handleSave up to its await; the two buttons are disabled while saving and
\* for an approved declaration. The two early returns show a toast and send
\* nothing.
handleSave ==
    /\ mounted
    /\ ~saving
    /\ ~Approved
    /\ saves < MaxSaves
    /\ saves' = saves + 1
    /\ \E targetStatus \in {"draft", "submitted"} :
          IF targetStatus = "submitted" /\ Len(definitions) = 0
          THEN UNCHANGED <<saving, saveCall>>
          ELSE IF targetStatus = "submitted" /\ Len(buildPayloadItems) = 0
          THEN UNCHANGED <<saving, saveCall>>
          ELSE /\ saving' = TRUE
               /\ saveCall' = [pc |-> "saving",
                               payload |-> [financial_year |-> financialYear,
                                            chosen_regime |-> regime,
                                            status |-> targetStatus,
                                            items |-> buildPayloadItems]]
    /\ UNCHANGED <<financialYear, definitions, declaration, items, formItems,
                   regime, loading, showOnlyMarked, mounted, loads, server,
                   selections>>
    /\ UNCHANGED reportVars

\* what the api holds after it has accepted a payload
Saved(payload) ==
    [declaration |-> Declaration(payload.financial_year, payload.chosen_regime,
                                 payload.status),
     items |-> [k \in 1..Len(payload.items) |->
                   Item(payload.items[k].component_id,
                        AmountColumnText(payload.items[k].declared_amount),
                        payload.items[k].proof_url)]]

\* api.saveTaxDeclaration resolves: the toast, then await loadData()
SaveResolves ==
    /\ saveCall.pc = "saving"
    /\ server' = [server EXCEPT ![saveCall.payload.financial_year] =
                     Saved(saveCall.payload)]
    /\ saveCall' = [pc |-> "reloading", payload |-> saveCall.payload]
    /\ StartLoad("save")
    /\ UNCHANGED <<financialYear, definitions, declaration, items, formItems,
                   regime, saving, showOnlyMarked, mounted, selections, saves>>
    /\ UNCHANGED reportVars

\* api.saveTaxDeclaration rejects: catch { toast } finally { setSaving(false) }
SaveRejects ==
    /\ saveCall.pc = "saving"
    /\ saving' = FALSE
    /\ saveCall' = NoSave
    /\ UNCHANGED <<financialYear, definitions, declaration, items, formItems,
                   regime, loading, showOnlyMarked, mounted, loads, server,
                   selections, saves>>
    /\ UNCHANGED reportVars

(***************************************************************************)
(* The page as a program: the user's actions and the api's answers.        *)
(***************************************************************************)
InitPage ==
    /\ db = NoStore
    /\ pc = "idle"
    /\ fn = ""
    /\ args = [tenantId |-> "", month |-> 0, year |-> 0]
    /\ payrollRun = NoRun
    /\ org = NoOrg
    /\ employeesResult = <<>>
    /\ result = NoResult
    /\ raised = NoError
    /\ delivered = NoError
    /\ queries = <<>>
    /\ logged = <<>>
    /\ financialYear = getCurrentFinancialYear
    /\ definitions = <<>>
    /\ declaration = NoDeclaration
    /\ items = <<>>
    /\ formItems = <<>>
    /\ regime = "old"
    /\ loading = FALSE
    /\ saving = FALSE
    /\ showOnlyMarked = FALSE
    /\ mounted = FALSE
    /\ loads = <<>>
    /\ saveCall = NoSave
    /\ server \in ServerStores
    /\ selections = 0
    /\ saves = 0

NextPage ==
    \/ Mount
    \/ LoadResolves
    \/ SelectFinancialYear
    \/ SelectRegime
    \/ ToggleShowOnlyMarked
    \/ handleToggleInclude
    \/ handleAmountChange
    \/ handleProofChange
    \/ handleSave
    \/ SaveResolves

SpecPage == InitPage /\ [][NextPage]_vars

NextPageFault == NextPage \/ LoadRejects \/ SaveRejects

\* the same page against an api whose calls may reject
SpecPageFault == InitPage /\ [][NextPageFault]_vars

(***************************************************************************)
(* Properties.                                                             *)
(***************************************************************************)
Range(s) == {s[i] : i \in 1..Len(s)}

Finished == pc \in {"done", "failed"}

NotFoundMessages ==
    {"No completed payroll run found for {month}/{year}. Available completed payroll runs: {runs}.",
     "No completed payroll run found for {month}/{year}. Available payroll runs: {runs}. Please complete a payroll run first.",
     "No completed payroll run found for {month}/{year}. No payroll runs found for this organization. Please create and process a payroll run first."}

\* the stored runs of the requesting tenant
TenantRuns == {r \in db.payroll_runs : r.tenant_id = args.tenantId}

\* the tenant has a completed run with a pay date in the requested period
HasPeriodRun ==
    \E r \in TenantRuns :
        /\ r.status = "completed"
        /\ r.pay_date.month = args.month
        /\ r.pay_date.year = args.year

\* the tenant's organization record has a NULL or empty PF code
HasBlankPFCode ==
    \E o \in db.organizations :
        o.id = args.tenantId /\ o.pf_code \in {NULL, <<>>}

\* the tenant's organization record passes the checks of the running builder
OrgAccepted ==
    \E o \in db.organizations :
        /\ o.id = args.tenantId
        /\ fn = "generatePFECR" => o.pf_code \notin {NULL, <<>>}

\* the stored processed rows of the resolved run that belong to employees of
\* the requesting tenant, each with its employee
ProcessedOfRun ==
    {[pre |-> pre, e |-> e] :
        pre \in {x \in db.payroll_run_employees :
                    x.payroll_run_id = payrollRun.id /\ x.status = "processed"},
        e \in {x \in db.employees : x.tenant_id = args.tenantId}}

Processed == {x \in ProcessedOfRun : x.e.id = x.pre.employee_id}

\* the stored row behind the i-th fetched row
StoredRow(i) ==
    CHOOSE x \in Processed : x.e.employee_id = employeesResult[i].employee_id

StoredPF(x) ==
    IF "pf_cents" \in DOMAIN x.pre.metadata THEN x.pre.metadata["pf_cents"] ELSE 0

StoredTDS(x) ==
    IF "tds_cents" \in DOMAIN x.pre.metadata THEN x.pre.metadata["tds_cents"] ELSE 0

RECURSIVE TotalPF(_)
TotalPF(S) ==
    IF S = {} THEN 0
    ELSE LET x == CHOOSE y \in S : TRUE IN StoredPF(x) + TotalPF(S \ {x})

PFDone == pc = "done" /\ fn = "generatePFECR"

ESIDone == pc = "done" /\ fn = "generateESIReturn"

TDSDone == pc = "done" /\ fn = "generateTDSSummary"

\* C1 as stated: whenever the tenant's organization has a blank PF code, a
\* generatePFECR call ends in the 'PF Code not configured' error and has
\* issued no employee query.
C1_AsStated ==
    (fn = "generatePFECR" /\ HasBlankPFCode /\ Finished)
        => /\ pc = "failed"
           /\ delivered = PFCodeNotConfigured
           /\ "payroll_run_employees" \notin Range(queries)

\* C1 amended: when the tenant has a completed run in the requested period
\* and its organization has a blank PF code, a generatePFECR call never
\* issues the employee query and ends in the 'PF Code not configured' error.
C1_BlankPFCodeFails ==
    (fn = "generatePFECR" /\ HasBlankPFCode /\ HasPeriodRun)
        => /\ "payroll_run_employees" \notin Range(queries)
           /\ pc \notin {"employees", "serialize", "done"}
           /\ Finished => (pc = "failed" /\ delivered = PFCodeNotConfigured)

C1_Witness ==
    /\ fn = "generatePFECR"
    /\ pc = "failed"
    /\ delivered = PFCodeNotConfigured
    /\ \E o \in db.organizations : o.id = args.tenantId /\ o.pf_code = <<>>
    /\ queries = <<"payroll_runs.period", "organizations">>

\* C2: a run returned by getPayrollRunForMonth is a stored run of the
\* requesting tenant, completed, paid in the requested month and year, and no
\* completed run of that tenant in that period has a later pay date; a
\* builder goes past the lookup only with such a run.
C2_ReturnedRunIsLatestCompleted ==
    /\ payrollRun # NoRun =>
          /\ \E r \in db.payroll_runs :
                /\ r.id = payrollRun.id
                /\ r.tenant_id = args.tenantId
                /\ r.status = "completed"
                /\ r.pay_date = payrollRun.pay_date
          /\ payrollRun.status = "completed"
          /\ payrollRun.pay_date.month = args.month
          /\ payrollRun.pay_date.year = args.year
          /\ \A o \in TenantRuns :
                (/\ o.status = "completed"
                 /\ o.pay_date.month = args.month
                 /\ o.pay_date.year = args.year)
                    => ~DateLess(payrollRun.pay_date, o.pay_date)
    /\ pc \in {"org", "employees", "serialize", "done"} => payrollRun # NoRun
    /\ "organizations" \in Range(queries) => payrollRun # NoRun

\* a completed run is returned although a run in another status has a later
\* pay date in the same period
C2_Witness ==
    /\ payrollRun # NoRun
    /\ pc = "done"
    /\ \E o \in TenantRuns :
          /\ o.status # "completed"
          /\ o.pay_date.month = args.month
          /\ o.pay_date.year = args.year
          /\ DateLess(payrollRun.pay_date, o.pay_date)

\* C3 as stated: the branch of the lookup's message is decided by all runs of
\* the tenant: a completed run anywhere gives the list of completed periods,
\* runs of which none is completed give the list with statuses and the
\* instruction to complete one, no runs give the instruction to create one.
C3_BranchFollowsAllRuns ==
    (pc \in {"catch", "failed"} /\ raised.message \in NotFoundMessages)
        => IF \E r \in TenantRuns : r.status = "completed"
           THEN /\ raised.message = "No completed payroll run found for {month}/{year}. Available completed payroll runs: {runs}."
                /\ raised.runs # <<>>
           ELSE IF TenantRuns # {}
           THEN /\ raised.message = "No completed payroll run found for {month}/{year}. Available payroll runs: {runs}. Please complete a payroll run first."
                /\ raised.runs # <<>>
           ELSE raised.message = "No completed payroll run found for {month}/{year}. No payroll runs found for this organization. Please create and process a payroll run first."

\* C4: a failed call returns nothing, delivers the error that was raised,
\* logs it once, and has issued no query twice; a call that returns a result
\* raised nothing.
C4_FailureIsRethrownUnchanged ==
    /\ pc \in {"catch", "failed"} => (result = NoResult /\ raised # NoError)
    /\ pc = "failed" =>
          /\ delivered = raised
          /\ Len(logged) = 1
          /\ logged[1].error = raised
    /\ pc = "done" =>
          (raised = NoError /\ delivered = NoError /\ result # NoResult)
    /\ \A i, j \in 1..Len(queries) : queries[i] = queries[j] => i = j

\* a call fails on a query that rejects, after the organization was fetched
C4_Witness ==
    /\ pc = "failed"
    /\ delivered = [message |-> "query failed", query |-> "payroll_run_employees"]
    /\ result = NoResult

\* C5 as stated: in every PF employee record the EPS field is
\* round(round(pf_cents x 0.8333) / 100) and the EDLI field is
\* round(round(pf_cents x 0.0005) / 100).
C5_DerivedFromMinorUnits ==
    PFDone =>
        \A i \in 1..Len(employeesResult) :
            LET pf == StoredPF(StoredRow(i))
            IN  /\ result.fields[i + 1][7] = String(ToRupees(RoundEPS(pf)))
                /\ result.fields[i + 1][8] = String(ToRupees(RoundEDLI(pf)))

C7_WagesCapped ==
    PFDone =>
        \A i \in 1..Len(employeesResult) :
            LET gross == StoredRow(i).pre.gross_pay_cents
                capped == IF gross < 1500000 THEN gross ELSE 1500000
                rupees == ToRupees(capped)
            IN  /\ result.fields[i + 1][4] = String(rupees)
                /\ result.fields[i + 1][5] = String(rupees)
                /\ rupees <= 15000
                /\ gross <= 1500000 =>
                      /\ result.fields[i + 1][4] = result.fields[i + 1][3]
                      /\ result.fields[i + 1][5] = result.fields[i + 1][3]

\* one record is capped at 15000 and another is below the ceiling
C7_Witness ==
    /\ PFDone
    /\ \E i, j \in 1..Len(employeesResult) :
          /\ result.fields[i + 1][3] = <<"2", "0", "0", "0", "0">>
          /\ result.fields[i + 1][4] = <<"1", "5", "0", "0", "0">>
          /\ result.fields[j + 1][3] = <<"1", "2", "0", "0", "1">>
          /\ result.fields[j + 1][4] = <<"1", "2", "0", "0", "1">>

\* the employee_id values of the tenant's employees with a processed row in
\* the resolved run and gross pay within the ESI ceiling
ESIEligible ==
    {x.e.employee_id : x \in {y \in Processed : y.pre.gross_pay_cents <= 2100000}}

\* C8: the ESI return has one record for each employee of the tenant with a
\* processed row in the resolved run and gross pay <= 2,100,000, and for no
\* one else.
C8_ESIEligibility ==
    /\ ESIDone =>
          /\ {employeesResult[i].employee_id : i \in 1..Len(employeesResult)}
                = ESIEligible
          /\ Len(employeesResult) = Cardinality(ESIEligible)
          /\ Len(result.fields) = Len(employeesResult)
    /\ (fn = "generateESIReturn" /\ pc = "failed"
        /\ delivered = NoEmployeesEligible) => ESIEligible = {}

\* gross pay of exactly 2,100,000 is in the return, 2,100,001 is not
C8_Witness ==
    /\ ESIDone
    /\ \E x, y \in Processed :
          /\ x.pre.gross_pay_cents = 2100000
          /\ y.pre.gross_pay_cents = 2100001
          /\ \E i \in 1..Len(employeesResult) :
                /\ employeesResult[i].employee_id = x.e.employee_id
                /\ result.fields[i][4] = <<"2", "1", "0", "0", "0">>
          /\ \A i \in 1..Len(employeesResult) :
                employeesResult[i].employee_id # y.e.employee_id

\* no employee of the tenant has a processed row with a positive TDS figure
\* in the run a lookup returns for the request
NoPositiveTDS ==
    \A r \in LatestRuns(PeriodRuns(args.tenantId, args.month, args.year)) :
        \A pre \in db.payroll_run_employees, e \in db.employees :
            (/\ pre.payroll_run_id = r.id
             /\ pre.status = "processed"
             /\ e.id = pre.employee_id
             /\ e.tenant_id = args.tenantId)
                => ~("tds_cents" \in DOMAIN pre.metadata
                     /\ pre.metadata["tds_cents"] > 0)

\* C9: with a completed run and an organization but no positive TDS figure,
\* generateTDSSummary returns a summary whose totals, counts and lists are
\* zero or empty; generateTDSSummary never fails for want of rows.
C9_TDSZeroRowsSucceeds ==
    /\ (fn = "generateTDSSummary" /\ Finished /\ HasPeriodRun
        /\ OrgRows(args.tenantId) # {} /\ NoPositiveTDS)
          => /\ pc = "done"
             /\ result.kind = "summary"
             /\ result.summary.total_tds = 0
             /\ result.summary.total_employees = 0
             /\ result.summary.employees = <<>>
             /\ DOMAIN result.summary.by_section = {"192B"}
             /\ result.summary.by_section["192B"].section = "192B"
             /\ result.summary.by_section["192B"].total_amount = 0
             /\ result.summary.by_section["192B"].employee_count = 0
             /\ result.summary.by_section["192B"].employees = <<>>
    /\ fn = "generateTDSSummary" =>
          raised \notin {NoEmployeesFound, NoEmployeesEligible}

\* a summary of zeros is returned for a run whose processed rows carry a zero
\* or no TDS figure
C9_Witness ==
    /\ TDSDone
    /\ result.summary.total_employees = 0
    /\ result.summary.by_section["192B"].total_amount = 0
    /\ \E x \in Processed : StoredTDS(x) = 0
    /\ \E x \in Processed : "tds_cents" \notin DOMAIN x.pre.metadata

\* C10 as stated: with a resolved run and no processed employee of the tenant
\* in it, generatePFECR ends in 'No employees found'; with none within the
\* ESI ceiling, generateESIReturn ends in 'No employees eligible'.
C10_AsStated ==
    /\ (fn = "generatePFECR" /\ Finished /\ payrollRun # NoRun
        /\ Processed = {})
          => (pc = "failed" /\ delivered = NoEmployeesFound)
    /\ (fn = "generateESIReturn" /\ Finished /\ payrollRun # NoRun
        /\ ESIEligible = {})
          => (pc = "failed" /\ delivered = NoEmployeesEligible)

\* C10 amended: the same, for a request whose organization check passed; and
\* a PF or ESI file that is returned has at least one employee line.
C10_EmptyResultFails ==
    /\ (fn = "generatePFECR" /\ Finished /\ payrollRun # NoRun
        /\ OrgAccepted /\ Processed = {})
          => (pc = "failed" /\ delivered = NoEmployeesFound)
    /\ (fn = "generateESIReturn" /\ Finished /\ payrollRun # NoRun
        /\ OrgAccepted /\ ESIEligible = {})
          => (pc = "failed" /\ delivered = NoEmployeesEligible)
    /\ PFDone => (Len(result.fields) >= 2 /\ Includes(result.text, "\n"))
    /\ ESIDone => (Len(result.fields) >= 1 /\ Includes(result.text, "\n"))

\* generatePFECR fails for a completed run that has no processed employee
C10_Witness ==
    /\ fn = "generatePFECR"
    /\ pc = "failed"
    /\ delivered = NoEmployeesFound
    /\ payrollRun # NoRun
    /\ Processed = {}
    /\ result = NoResult

\* the k-th smallest member of a set of indices
Nth(cuts, k) == CHOOSE i \in cuts : Cardinality({j \in cuts : j < i}) = k - 1

\* the pieces of s between the indices in cuts
Pieces(s, cuts) ==
    LET n == Cardinality(cuts)
    IN  [k \in 1..(n + 1) |->
            LET from == IF k = 1 THEN 1 ELSE Nth(cuts, k - 1) + 1
                to == IF k = n + 1 THEN Len(s) ELSE Nth(cuts, k) - 1
            IN  [m \in 1..(to - from + 1) |-> s[from + m - 1]]]

\* the pieces of s between the occurrences of the character c
Split(s, c) == Pieces(s, {i \in 1..Len(s) : s[i] = c})

\* the occurrences of c in s that stand outside double quotes
Separators(s, c) ==
    {i \in 1..Len(s) :
        /\ s[i] = c
        /\ Cardinality({j \in 1..(i - 1) : s[j] = "\""}) % 2 = 0}

\* the number of double quotes that stand directly before position k of v
QuoteRun(v, k) ==
    LET others == {j \in 1..(k - 1) : v[j] # "\""}
    IN  IF others = {} THEN k - 1
        ELSE k - 1 - (CHOOSE j \in others : \A o \in others : o <= j)

\* v with every pair of double quotes read as one
Undoubled(v) ==
    LET kept == {k \in 1..Len(v) : ~(v[k] = "\"" /\ QuoteRun(v, k) % 2 = 1)}
    IN  [n \in 1..Cardinality(kept) |-> v[Nth(kept, n)]]

\* the value of one raw field
Unescape(raw) ==
    IF Len(raw) >= 2 /\ raw[1] = "\"" /\ raw[Len(raw)] = "\""
    THEN Undoubled([m \in 1..(Len(raw) - 2) |-> raw[m + 1]])
    ELSE raw

\* an RFC 4180 reader over lines ended by "\n": the records of a text, each
\* the sequence of its unescaped fields
ParseCSV(s) ==
    LET lines == Pieces(s, Separators(s, "\n"))
    IN  [i \in 1..Len(lines) |->
            LET raw == Pieces(lines[i], Separators(lines[i], ","))
            IN  [k \in 1..Len(raw) |-> Unescape(raw[k])]]

\* C11 as stated: the PF header line has 7 fields between '|', every PF
\* employee line has 8, and every ESI line reads as 4 CSV fields, whatever
\* the names and identifiers contain.
C11_FieldCounts ==
    /\ PFDone =>
          LET lines == Split(result.text, "\n")
          IN  /\ Len(lines) = Len(employeesResult) + 1
              /\ Len(Split(lines[1], "|")) = 7
              /\ \A i \in 2..Len(lines) : Len(Split(lines[i], "|")) = 8
    /\ ESIDone =>
          LET records == ParseCSV(result.text)
          IN  /\ Len(records) = Len(employeesResult) + 1
              /\ \A i \in 1..Len(records) : Len(records[i]) = 4

\* the profile of a stored employee
ProfileOf(e) == CHOOSE p \in db.profiles : p.id = e.user_id

\* the four values of the i-th ESI row before escaping, from the stored rows
ESIValues(i) ==
    LET x == StoredRow(i)
        first == ProfileOf(x.e).first_name
        last == ProfileOf(x.e).last_name
        name == IF first # NULL /\ last # NULL THEN first \o <<" ">> \o last
                ELSE IF first # NULL THEN first
                ELSE IF last # NULL THEN last
                ELSE <<>>
    IN  <<IF x.e.esi_number \notin {NULL, <<>>} THEN x.e.esi_number
          ELSE x.e.employee_id,
          trim(name),
          String(DaysInMonth(args.year, args.month)),
          String(ToRupees(x.pre.gross_pay_cents))>>

NeedsQuoting(v) == \E k \in 1..Len(v) : v[k] \in {",", "\"", "\n"}

\* v between double quotes, each of its own double quotes written twice
Quoted(v) ==
    <<"\"">>
    \o join([k \in 1..Len(v) |-> IF v[k] = "\"" THEN <<"\"", "\"">> ELSE <<v[k]>>],
            <<>>)
    \o <<"\"">>

\* C12: every emitted ESI field is its value between double quotes with the
\* inner quotes doubled exactly when the value holds a comma, a double quote
\* or a newline, and the value itself otherwise; reading the file back by
\* RFC 4180 gives, line by line, the four original values.
C12_EscapeRoundTrips ==
    ESIDone =>
        LET records == ParseCSV(result.text)
        IN  /\ Len(records) = Len(employeesResult) + 1
            /\ \A i \in 1..Len(employeesResult) :
                  /\ records[i + 1] = ESIValues(i)
                  /\ \A k \in 1..4 :
                        result.fields[i][k] =
                            IF NeedsQuoting(ESIValues(i)[k])
                            THEN Quoted(ESIValues(i)[k])
                            ELSE ESIValues(i)[k]

\* the name 'Doe, John' is emitted quoted and read back as one field, next to
\* an identifier that holds a double quote
C12_Witness ==
    /\ ESIDone
    /\ \E i \in 1..Len(employeesResult) :
          /\ result.fields[i][2] =
                <<"\"", "D", "o", "e", ",", " ", "J", "o", "h", "n", "\"">>
          /\ ParseCSV(result.text)[i + 1][2] =
                <<"D", "o", "e", ",", " ", "J", "o", "h", "n">>
          /\ Includes(ESIValues(i)[1], "\"")
          /\ Len(ParseCSV(result.text)[i + 1]) = 4

Qualifying ==
    CASE fn = "generatePFECR" -> Processed
      [] fn = "generateESIReturn" ->
            {x \in Processed : x.pre.gross_pay_cents <= 2100000}
      [] fn = "generateTDSSummary" -> {x \in Processed : StoredTDS(x) > 0}
      [] OTHER -> {}

\* C14: the fetched rows are in strictly ascending employee_id order, one for
\* each qualifying stored row, and the records of the output follow them one
\* to one in that order.
C14_AscendingEmployeeId ==
    pc \in {"serialize", "done"} =>
        /\ \A i, j \in 1..Len(employeesResult) :
              i < j => TextLess(employeesResult[i].employee_id,
                                employeesResult[j].employee_id)
        /\ {employeesResult[i].employee_id : i \in 1..Len(employeesResult)}
              = {x.e.employee_id : x \in Qualifying}
        /\ Len(employeesResult) = Cardinality(Qualifying)
        /\ PFDone =>
              /\ Len(result.fields) = Len(employeesResult) + 1
              /\ \A i \in 1..Len(employeesResult) :
                    result.fields[i + 1][3] =
                        String(ToRupees(StoredRow(i).pre.gross_pay_cents))
        /\ ESIDone =>
              /\ Len(result.fields) = Len(employeesResult)
              /\ \A i \in 1..Len(employeesResult) :
                    result.fields[i][4] =
                        String(ToRupees(StoredRow(i).pre.gross_pay_cents))
        /\ TDSDone =>
              /\ Len(result.summary.employees) = Len(employeesResult)
              /\ \A i \in 1..Len(employeesResult) :
                    result.summary.employees[i].employee_id =
                        StoredRow(i).e.employee_id

\* a summary of two employees, E1 before E2
C14_Witness ==
    /\ TDSDone
    /\ Len(result.summary.employees) = 2
    /\ result.summary.employees[1].employee_id = <<"E", "1">>
    /\ result.summary.employees[2].employee_id = <<"E", "2">>

\* the day number of a date of the Gregorian calendar
DayNumber(y, m, d) ==
    LET yy == IF m <= 2 THEN y - 1 ELSE y
        era == yy \div 400
        yoe == yy - era * 400
        mp == (m + 9) % 12
        doy == ((153 * mp + 2) \div 5) + d - 1
    IN  era * 146097 + yoe * 365 + (yoe \div 4) - (yoe \div 100) + doy

\* the number of days from the first of a month to the first of the next
CalendarDays(m, y) ==
    (IF m = 12 THEN DayNumber(y + 1, 1, 1) ELSE DayNumber(y, m + 1, 1))
    - DayNumber(y, m, 1)

\* C15: the days-worked field of every ESI row is the number of calendar
\* days of the requested month and year, between 28 and 31, the same in
\* every row.
C15_DaysWorkedIsMonthLength ==
    ESIDone =>
        /\ CalendarDays(args.month, args.year) \in 28..31
        /\ \A i \in 1..Len(result.fields) :
              result.fields[i][3] = String(CalendarDays(args.month, args.year))

\* February of the century year 1900 has 28 days in both rows
C15_Witness ==
    /\ ESIDone
    /\ args.month = 2
    /\ args.year = 1900
    /\ Len(result.fields) = 2
    /\ result.fields[1][3] = <<"2", "8">>
    /\ result.fields[2][3] = <<"2", "8">>

\* C16: the flat list and the list of section 192B are the same sequence,
\* the two counts are its length, and the two totals are the sum of its
\* tds_deducted fields.
C16_SectionMirrorsFlatList ==
    TDSDone =>
        LET sum == result.summary
            sec == sum.by_section["192B"]
            total == SumSeq([i \in 1..Len(sum.employees) |->
                                sum.employees[i].tds_deducted])
        IN  /\ sum.employees = sec.employees
            /\ sum.total_employees = Len(sum.employees)
            /\ sec.employee_count = Len(sum.employees)
            /\ sum.total_tds = total
            /\ sec.total_amount = total

\* two employees of 151 each, where rounding the sum would give 301
C16_Witness ==
    /\ TDSDone
    /\ Len(result.summary.employees) = 2
    /\ result.summary.total_tds = 302
    /\ result.summary.by_section["192B"].total_amount = 302

\* the organization record of the requesting tenant, if any
TenantOrgs == {o \in db.organizations : o.id = args.tenantId}

BlankIfNull(v) == IF v = NULL THEN <<>> ELSE v

\* C17: with a completed run in the period and no organization record, each
\* builder fails with 'Organization not found' after two queries; with an
\* organization record, generateTDSSummary does not fail and returns its
\* name, PAN and TAN with '' for an absent one.
C17_MissingOrganizationFails ==
    /\ (Finished /\ HasPeriodRun /\ TenantOrgs = {})
          => /\ pc = "failed"
             /\ delivered = OrganizationNotFound
             /\ queries = <<"payroll_runs.period", "organizations">>
    /\ (fn = "generateTDSSummary" /\ Finished /\ HasPeriodRun
        /\ TenantOrgs # {})
          => /\ pc = "done"
             /\ \E o \in TenantOrgs :
                   result.summary.organization =
                       [name |-> BlankIfNull(o.name),
                        pan |-> BlankIfNull(o.company_pan),
                        tan |-> BlankIfNull(o.company_tan)]

\* a request of a tenant that has a completed run but no organization record
C17_Witness ==
    /\ pc = "failed"
    /\ fn = "generateESIReturn"
    /\ HasPeriodRun
    /\ TenantOrgs = {}
    /\ delivered = OrganizationNotFound
    /\ db.organizations # {}

\* the ESI file written from the stored rows alone
ESIFileOfRows ==
    join(<<ESIHeaderLine>>
         \o [i \in 1..Len(employeesResult) |->
                join([k \in 1..4 |->
                        IF NeedsQuoting(ESIValues(i)[k])
                        THEN Quoted(ESIValues(i)[k])
                        ELSE ESIValues(i)[k]], <<",">>)],
         <<"\n">>)

\* C18: with a completed run, an organization record and an eligible
\* employee, generateESIReturn returns the file of the stored rows whatever
\* the ESI code is; generatePFECR with a blank PF code fails.
C18_ESICodeNotRequired ==
    /\ (fn = "generateESIReturn" /\ Finished /\ HasPeriodRun
        /\ TenantOrgs # {} /\ ESIEligible # {})
          => (pc = "done" /\ result.text = ESIFileOfRows)
    /\ (fn = "generatePFECR" /\ Finished /\ HasPeriodRun /\ HasBlankPFCode)
          => pc = "failed"

\* a file is returned for an organization whose ESI code is NULL
C18_Witness ==
    /\ ESIDone
    /\ \E o \in TenantOrgs : o.esi_code = NULL /\ o.pf_code # NULL
    /\ Len(result.fields) = 2

\* C19: the queries are issued in the order period lookup, organization,
\* employees, the all-runs query only after a period lookup without a row;
\* the failure delivered is that of the first failing step and no query
\* follows it.
C19_StepOrder ==
    /\ queries \in {<<>>,
                    <<"payroll_runs.period">>,
                    <<"payroll_runs.period", "payroll_runs.all">>,
                    <<"payroll_runs.period", "organizations">>,
                    <<"payroll_runs.period", "organizations",
                      "payroll_run_employees">>}
    /\ "payroll_runs.all" \in Range(queries) => ~HasPeriodRun
    /\ "organizations" \in Range(queries) => HasPeriodRun
    /\ "payroll_run_employees" \in Range(queries) => OrgAccepted
    /\ pc \in {"serialize", "done"} =>
          queries = <<"payroll_runs.period", "organizations",
                      "payroll_run_employees">>
    /\ (Finished /\ ~HasPeriodRun) =>
          /\ pc = "failed"
          /\ delivered.message \in NotFoundMessages
          /\ queries = <<"payroll_runs.period", "payroll_runs.all">>
    /\ (Finished /\ HasPeriodRun /\ ~OrgAccepted) =>
          /\ pc = "failed"
          /\ delivered \in {OrganizationNotFound, PFCodeNotConfigured}
          /\ queries = <<"payroll_runs.period", "organizations">>
    /\ (Finished /\ delivered \in {NoEmployeesFound, NoEmployeesEligible}) =>
          /\ HasPeriodRun
          /\ OrgAccepted
          /\ queries = <<"payroll_runs.period", "organizations",
                         "payroll_run_employees">>

\* the lookup's error is delivered to a tenant that has no organization
\* record either, after the two run queries and nothing else
C19_Witness ==
    /\ pc = "failed"
    /\ fn = "generatePFECR"
    /\ delivered.message \in NotFoundMessages
    /\ TenantOrgs = {}
    /\ queries = <<"payroll_runs.period", "payroll_runs.all">>

\* C20 as stated: every record of a TDS summary has tds_deducted >= 1, and
\* total_tds = 0 only with an empty list.
C20_AsStated ==
    TDSDone =>
        /\ \A i \in 1..Len(result.summary.employees) :
              result.summary.employees[i].tds_deducted >= 1
        /\ result.summary.total_tds = 0 => result.summary.employees = <<>>

\* C20 amended: every record comes from a stored figure > 0 in minor units
\* and carries that figure rounded to whole units, which is >= 1 exactly
\* when the figure is at least 50; total_tds = 0 exactly when every listed
\* figure is below 50.
C20_PositiveMinorUnits ==
    TDSDone =>
        /\ \A i \in 1..Len(result.summary.employees) :
              LET cents == StoredTDS(StoredRow(i))
                  rec == result.summary.employees[i]
              IN  /\ cents > 0
                  /\ rec.tds_deducted = ToRupees(cents)
                  /\ rec.tds_deducted >= 0
                  /\ rec.tds_deducted >= 1 <=> cents >= 50
        /\ result.summary.total_tds = 0 <=>
              \A i \in 1..Len(employeesResult) : StoredTDS(StoredRow(i)) < 50

\* a record of 49 minor units is listed with tds_deducted = 0, alone
C20_Witness ==
    /\ TDSDone
    /\ Len(result.summary.employees) = 1
    /\ result.summary.employees[1].tds_deducted = 0
    /\ result.summary.total_tds = 0
    /\ StoredTDS(StoredRow(1)) = 49

\* the number a string of decimal digits writes
DigitValue(c) == (CHOOSE i \in 1..Len(Digit) : Digit[i] = c) - 1

RECURSIVE NumberOf(_)
NumberOf(s) ==
    IF s = <<>> THEN 0
    ELSE NumberOf(SubSeq(s, 1, Len(s) - 1)) * 10 + DigitValue(s[Len(s)])

\* C21: in a PF file the header's employee count is the number of employee
\* lines and the header's total PF is the sum of the EPF contribution
\* fields of the employee lines.
C21_FileReconciles ==
    PFDone =>
        LET header == result.fields[1]
            n == Len(result.fields) - 1
        IN  /\ NumberOf(header[4]) = n
            /\ NumberOf(header[5]) =
                  SumSeq([i \in 1..n |-> NumberOf(result.fields[i + 1][6])])

\* the ids of the components the api defines for the selected financial year
SelectedYearIds ==
    LET answer == TaxDefinitions(financialYear)
    IN  IF answer = <<>> THEN {}
        ELSE {answer[1][k].id : k \in 1..Len(answer[1])}

\* C22: once every loadData has completed, the definitions, the declaration,
\* the items and the form items shown are those of the selected financial
\* year.
C22_DisplayFollowsSelection ==
    (mounted /\ loads = <<>>) =>
        /\ {definitions[k].id : k \in 1..Len(definitions)} = SelectedYearIds
        /\ declaration = NoDeclaration
              \/ declaration.financial_year = financialYear
        /\ \A k \in 1..Len(items) : items[k].component_id \in SelectedYearIds
        /\ DOMAIN formItems = SelectedYearIds

\* C23: a payload that handleSave sends as 'submitted' goes out with
\* definitions and with at least one item; every item of any payload has an
\* amount above zero and the id of a definition whose form state is
\* included; and whenever no handleSave is under way the saving flag is
\* false.
C23_SaveGuards ==
    [][/\ (saveCall.pc = "idle" /\ saveCall'.pc = "saving") =>
             LET payload == saveCall'.payload
             IN  /\ payload.status = "submitted" =>
                       (Len(definitions) > 0 /\ Len(payload.items) > 0)
                 /\ \A k \in 1..Len(payload.items) :
                       /\ payload.items[k].declared_amount > 0
                       /\ \E d \in 1..Len(definitions) :
                             /\ definitions[d].id = payload.items[k].component_id
                             /\ definitions[d].id \in DOMAIN formItems
                             /\ formItems[definitions[d].id].include
       /\ saveCall'.pc = "idle" => ~saving']_vars

\* a declaration is on its way as 'submitted' with one item of 250
C23_Witness ==
    /\ saveCall.pc = "saving"
    /\ saving
    /\ saveCall.payload.status = "submitted"
    /\ Len(saveCall.payload.items) = 1
    /\ saveCall.payload.items[1].declared_amount = 25000

====
